---- MODULE Spec2Model ----
(***************************************************************************)
(* Link-list building of the Yle Areena add-on:                            *)
(*   resources/lib/areena.py  playlist, season_playlist, search,           *)
(*                            _parse_search_results, get_live_broadcasts   *)
(*   src/areena_api.py        ProgramSearch, ProgramAPI.search             *)
(*   src/media_api.py         MediaAPI.get_playout                         *)
(*                                                                         *)
(* Python values are represented as follows.                               *)
(*   - a str is a sequence of one-character strings; '' is <<>>;           *)
(*   - an Optional value is None == <<>> or Some(v) == <<v>>;              *)
(*   - enumerations that the code only compares with literals (item type,  *)
(*     pointer type, broadcastStatus, ids, urls) are TLA+ strings;         *)
(*   - a raised exception is recorded in the variable raised.              *)
(***************************************************************************)
EXTENDS Integers, Sequences, FiniteSets, TLC

VARIABLES op, args, env, result, raised, cache, mapped

vars == <<op, args, env, result, raised, cache, mapped>>

----------------------------------------------------------------------------
(* Bounds of the model *)

MaxEpisodes == 2
MaxSeasons == 2
MaxOffset == 1
MaxPageSize == 2
MaxCount == 3
MaxItems == 2
MaxCallItems == 1

----------------------------------------------------------------------------
(* Python helpers *)

None == <<>>
Some(v) == <<v>>
Get(o) == o[1]

\* dict.get(key, default) / getattr(obj, name, default) on a present-or-absent field
GetOr(o, default) == IF o = None THEN default ELSE Get(o)

\* truthiness of an Optional[str]
Truthy(o) == o # None /\ Get(o) # <<>>

SeqsUpTo(S, n) == UNION {[1..k -> S] : k \in 0..n}

DEFAULT_PAGE_SIZE == 30

DEFAULT_IMAGE_VERSION == <<"1", "6">>

PLACEHOLDER_TITLE == <<"?", "?", "?">>

_thumbnail_url(image_id, version) ==
    <<"v">> \o (IF Truthy(version) THEN Get(version) ELSE DEFAULT_IMAGE_VERSION)
            \o <<"/">> \o image_id

----------------------------------------------------------------------------
(* Link records *)

\* StreamLink(...) followed by __post_init__
StreamLink(homepage, title, description, duration_seconds, published, image_id, image_version, is_folder) ==
    [kind |-> "StreamLink",
     homepage |-> homepage,
     title |-> IF title = <<>> THEN PLACEHOLDER_TITLE ELSE title,
     description |-> description,
     duration_seconds |-> duration_seconds,
     published |-> published,
     is_folder |-> is_folder,
     thumbnail |-> IF image_id # None
                   THEN Some(_thumbnail_url(Get(image_id), image_version))
                   ELSE None,
     fanart |-> None]

SearchNavigationLink(keyword, offset, page_size) ==
    [kind |-> "SearchNavigationLink",
     keyword |-> keyword, offset |-> offset, page_size |-> page_size]

SeriesNavigationLink(season_playlist_url, season_number, offset, page_size, is_next_page) ==
    [kind |-> "SeriesNavigationLink",
     season_playlist_url |-> season_playlist_url,
     season_number |-> season_number,
     offset |-> offset, page_size |-> page_size,
     is_next_page |-> is_next_page]

IsNav(l) == l.kind \in {"SearchNavigationLink", "SeriesNavigationLink"}

NavCount(links) == Cardinality({i \in 1..Len(links) : IsNav(links[i])})

----------------------------------------------------------------------------
(* season_playlist and playlist *)

\* One episode as download_playlist returns it.
Episode(title) ==
    [homepage |-> <<"e">>, title |-> title, description |-> None,
     duration_seconds |-> Some(60), published |-> None,
     image_id |-> Some(<<"i">>), image_version |-> None]

Episodes == {Episode(<<>>), Episode(<<"E">>)}

EpisodeLink(ep) ==
    StreamLink(ep.homepage, ep.title, ep.description, ep.duration_seconds,
               ep.published, ep.image_id, ep.image_version, FALSE)

\* The (playlist, meta) pair download_playlist answers with.  The fields of
\* meta are present or absent; the service need not echo the request.
PlaylistMetas ==
    [limit : {None} \cup {Some(n) : n \in 0..MaxPageSize},
     offset : {None} \cup {Some(n) : n \in 0..MaxOffset},
     count : {None} \cup {Some(n) : n \in 0..MaxCount}
                    \cup {Some(DEFAULT_PAGE_SIZE + 1)}]

download_playlist_results ==
    [playlist : SeqsUpTo(Episodes, MaxEpisodes), meta : PlaylistMetas]

season_playlist_off_by_one(season_url, offset, page_size, downloaded) ==
    LET links == [i \in 1..Len(downloaded.playlist) |-> EpisodeLink(downloaded.playlist[i])]
        limit == GetOr(downloaded.meta.limit, DEFAULT_PAGE_SIZE)
        meta_offset == GetOr(downloaded.meta.offset, 0)
        count == GetOr(downloaded.meta.count, 0)
        next_offset == meta_offset + limit
    IN  IF next_offset <= count
        THEN Append(links, SeriesNavigationLink(season_url, 0, next_offset, limit, TRUE))
        ELSE links

season_playlist_repeats_offset(season_url, offset, page_size, downloaded) ==
    LET links == [i \in 1..Len(downloaded.playlist) |-> EpisodeLink(downloaded.playlist[i])]
        limit == GetOr(downloaded.meta.limit, DEFAULT_PAGE_SIZE)
        meta_offset == GetOr(downloaded.meta.offset, 0)
        count == GetOr(downloaded.meta.count, 0)
        next_offset == meta_offset + limit
    IN  IF next_offset < count
        THEN Append(links, SeriesNavigationLink(season_url, 0, meta_offset, limit, TRUE))
        ELSE links

season_playlist(season_url, offset, page_size, downloaded) ==
    LET links == [i \in 1..Len(downloaded.playlist) |-> EpisodeLink(downloaded.playlist[i])]
        limit == GetOr(downloaded.meta.limit, DEFAULT_PAGE_SIZE)
        meta_offset == GetOr(downloaded.meta.offset, 0)
        count == GetOr(downloaded.meta.count, 0)
        next_offset == meta_offset + limit
    IN  IF next_offset < count
        THEN Append(links, SeriesNavigationLink(season_url, 0, next_offset, limit, TRUE))
        ELSE links

\* parse_playlist_seasons(series_id) followed by season_playlist_urls():
\* None when the listing cannot be parsed, else (season number, url) pairs.
SeasonUrl(i) == <<"s", i>>

SeasonUrls == {SeasonUrl(i) : i \in 1..MaxSeasons}

SeasonListings ==
    {None} \cup {Some([i \in 1..n |-> <<i, SeasonUrl(i)>>]) : n \in 0..MaxSeasons}

playlist_always_lists_seasons(seasons, offset, page_size, downloaded) ==
    IF seasons = None
    THEN <<>>
    ELSE LET season_urls == Get(seasons)
         IN  [i \in 1..Len(season_urls) |->
                 SeriesNavigationLink(season_urls[i][2], season_urls[i][1],
                                      0, DEFAULT_PAGE_SIZE, FALSE)]

playlist(seasons, offset, page_size, downloaded) ==
    IF seasons = None
    THEN <<>>
    ELSE LET season_urls == Get(seasons)
         IN  IF Len(season_urls) = 1
             THEN season_playlist(season_urls[1][2], offset, page_size, downloaded)
             ELSE [i \in 1..Len(season_urls) |->
                      SeriesNavigationLink(season_urls[i][2], season_urls[i][1],
                                           0, DEFAULT_PAGE_SIZE, FALSE)]

EmptyMap == [k \in {} |-> None]

InitSeason ==
    /\ op = "none"
    /\ args \in [season_url : SeasonUrls,
                 offset : 0..MaxOffset,
                 page_size : (1..MaxPageSize) \cup {DEFAULT_PAGE_SIZE}]
    /\ env \in [seasons : SeasonListings, downloaded : download_playlist_results]
    /\ result = <<>>
    /\ raised = "none"
    /\ cache = EmptyMap
    /\ mapped = EmptyMap

CallSeasonPlaylist ==
    /\ op = "none"
    /\ op' = "season_playlist"
    /\ result' = season_playlist(args.season_url, args.offset, args.page_size, env.downloaded)
    /\ UNCHANGED <<args, env, raised, cache, mapped>>

CallPlaylist ==
    /\ op = "none"
    /\ op' = "playlist"
    /\ result' = playlist(env.seasons, args.offset, args.page_size, env.downloaded)
    /\ UNCHANGED <<args, env, raised, cache, mapped>>

NextSeason == CallSeasonPlaylist \/ CallPlaylist

SpecSeason == InitSeason /\ [][NextSeason]_vars

----------------------------------------------------------------------------
(* _parse_search_results *)

\* A raw result item, by what getattr reads from it: a field the item (or
\* the nested object) lacks reads as None, transmissions as the sequence of
\* the broadcastStatus values.  dumped_duration is None for an item without
\* model_dump, else Some of what duration_from_search_result derives.
Item(type, uri, pointer_type, transmissions, title, description, id) ==
    [type |-> type, pointer_uri |-> uri, pointer_type |-> pointer_type,
     transmissions |-> transmissions, title |-> title,
     image_id |-> Some(<<"i">>), image_version |-> Some(<<"7">>),
     duration |-> None, dumped_duration |-> Some(Some(90)),
     description |-> description, id |-> id]

DESCRIPTION_PREFIX_LIMIT == 100

Digits == {"0", "1", "2", "3", "4", "5", "6", "7", "8", "9"}

DigitValue(ch) == CHOOSE n \in 0..9 : <<"0", "1", "2", "3", "4", "5", "6", "7", "8", "9">>[n + 1] = ch

IsNumber(s) == Len(s) > 0 /\ \A i \in 1..Len(s) : s[i] \in Digits

RECURSIVE NumberValue(_)
NumberValue(s) ==
    IF s = <<>> THEN 0
    ELSE 10 * NumberValue(SubSeq(s, 1, Len(s) - 1)) + DigitValue(s[Len(s)])

\* parse_finnish_date: a "day.month.year" text gives a date, anything else None.
parse_finnish_date(text) ==
    LET dots == {i \in 1..Len(text) : text[i] = "."}
        splits == {<<i, j>> \in dots \X dots :
                     /\ i < j
                     /\ IsNumber(SubSeq(text, 1, i - 1))
                     /\ IsNumber(SubSeq(text, i + 1, j - 1))
                     /\ IsNumber(SubSeq(text, j + 1, Len(text)))}
    IN  IF splits = {}
        THEN None
        ELSE LET ij == CHOOSE x \in splits : TRUE
             IN  Some([day |-> NumberValue(SubSeq(text, 1, ij[1] - 1)),
                       month |-> NumberValue(SubSeq(text, ij[1] + 1, ij[2] - 1)),
                       year |-> NumberValue(SubSeq(text, ij[2] + 1, Len(text)))])

\* duration_from_search_result(item.model_dump())
duration_from_search_result(item) == Get(item.dumped_duration)

is_upcoming_when_any(item) ==
    \E i \in 1..Len(item.transmissions) : item.transmissions[i] = "upcoming"

is_upcoming(item) ==
    /\ item.transmissions # <<>>
    /\ \A i \in 1..Len(item.transmissions) : item.transmissions[i] = "upcoming"

passes_filter(item) ==
    /\ item.type = Some("card")
    /\ Truthy(item.pointer_uri)
    /\ ~is_upcoming(item)

item_title(item) == IF Truthy(item.title) THEN Get(item.title) ELSE <<>>

program_published(item) ==
    IF Truthy(item.description) THEN parse_finnish_date(Get(item.description)) ELSE None

program_title_always_prefixed(item) ==
    IF Truthy(item.description)
    THEN Get(item.description) \o <<":", " ">> \o item_title(item)
    ELSE item_title(item)

program_title(item) ==
    IF /\ Truthy(item.description)
       /\ program_published(item) = None
       /\ Len(Get(item.description)) < DESCRIPTION_PREFIX_LIMIT
    THEN Get(item.description) \o <<":", " ">> \o item_title(item)
    ELSE item_title(item)

program_duration(item) ==
    IF item.duration = None /\ item.dumped_duration # None
    THEN duration_from_search_result(item)
    ELSE item.duration

program_link(item) ==
    StreamLink(Get(item.pointer_uri), program_title(item), Some(program_title(item)), program_duration(item), program_published(item), item.image_id, item.image_version, FALSE)

series_link(item) ==
    StreamLink(Get(item.pointer_uri), item_title(item), Some(item_title(item)), None, None, item.image_id, item.image_version, TRUE)

Put(m, k, v) == [x \in DOMAIN m \cup {k} |-> IF x = k THEN v ELSE m[x]]

IdTruthy(id) == id # None /\ Get(id) # ""

cache_item_keeps_first(c, item) ==
    IF IdTruthy(item.id) /\ Get(item.id) \notin DOMAIN c THEN Put(c, Get(item.id), item) ELSE c

cache_item(c, item) ==
    IF IdTruthy(item.id) THEN Put(c, Get(item.id), item) ELSE c

\* the body of the loop over data: the links and the cache after one item
map_item(item, results, c) ==
    IF passes_filter(item)
    THEN IF item.pointer_type \in {Some("program"), Some("clip")}
         THEN [results |-> Append(results, program_link(item)), cache |-> cache_item(c, item)]
         ELSE IF item.pointer_type = Some("series")
         THEN [results |-> Append(results, series_link(item)), cache |-> c]
         ELSE [results |-> results, cache |-> c]
    ELSE [results |-> results, cache |-> c]

RECURSIVE map_items(_, _, _, _)
map_items(data, i, results, c) ==
    IF i > Len(data)
    THEN [results |-> results, cache |-> c]
    ELSE LET step == map_item(data[i], results, c)
         IN  map_items(data, i + 1, step.results, step.cache)

\* Response metadata.  shape is "dict" for a plain mapping (getattr finds no
\* field on it) and "object" for a record with attributes.
Meta(shape, offset, limit, count, keyword) ==
    [shape |-> shape, offset |-> offset, limit |-> limit, count |-> count, keyword |-> keyword]

\* getattr(meta, name, default)
MetaAttr(meta, value, default) ==
    IF meta.shape = "object" THEN GetOr(value, default) ELSE default

pagination_link(meta) ==
    LET keyword == MetaAttr(meta, meta.keyword, <<>>)
        offset == MetaAttr(meta, meta.offset, 0)
        limit == MetaAttr(meta, meta.limit, DEFAULT_PAGE_SIZE)
        count == MetaAttr(meta, meta.count, 0)
        next_offset == offset + limit
    IN  IF next_offset < count
        THEN <<SearchNavigationLink(keyword, next_offset, limit)>>
        ELSE <<>>

\* search_response is [data, meta]: data and meta are read the same way from
\* a dict (get) and from a record (getattr); meta is None or Some(Meta(...)).
_parse_search_results(search_response, pagination_links, c) ==
    LET mapped_items == map_items(search_response.data, 1, <<>>, c)
    IN  [results |-> mapped_items.results \o
                     (IF pagination_links /\ search_response.meta # None
                      THEN pagination_link(Get(search_response.meta))
                      ELSE <<>>),
         cache |-> mapped_items.cache]

----------------------------------------------------------------------------
(* The mapping routine on its own *)

Text(n) == [i \in 1..n |-> "x"]

DateText == <<"1", "2", ".", "3", ".", "2", "0", "2", "1">>

ShortText == <<"c", "a", "t", "s">>

PointerTypes == {None, Some("program"), Some("clip"), Some("series"), Some("package"), Some("playlist")}

TransmissionLists == {<<>>, <<"upcoming">>, <<"upcoming", "available">>}

\* items that differ in what the skip filter and the pointer type look at
FilterItems ==
    {Item(t, u, pt, tr, Some(<<"T">>), None, Some("a")) :
        t \in {Some("card"), Some("teaser")}, u \in {None, Some(<<"u">>)},
        pt \in PointerTypes, tr \in TransmissionLists}
    \cup {Item(None, Some(<<"u">>), Some("program"), <<>>, Some(<<"T">>), None, Some("a")),
          Item(Some("card"), Some(<<>>), Some("program"), <<>>, Some(<<"T">>), None, Some("a")),
          Item(Some("card"), Some(<<"u">>), Some("series"), <<"upcoming", "upcoming">>, None, None, None)}

Descriptions ==
    {None, Some(<<>>), Some(DateText), Some(ShortText), Some(<<"1", ".", "x">>),
     Some(Text(DESCRIPTION_PREFIX_LIMIT - 1)), Some(Text(DESCRIPTION_PREFIX_LIMIT))}

\* playable items that differ in title and description
TitledItems ==
    {Item(Some("card"), Some(<<"u">>), pt, <<>>, title, d, Some("a")) :
        pt \in {Some("program"), Some("clip")},
        title \in {None, Some(<<>>), Some(<<"T">>)}, d \in Descriptions}

ExampleItems ==
    <<Item(Some("card"), Some(<<"p">>), Some("program"), <<>>, Some(<<"P">>), None, Some("a")),
      Item(Some("card"), Some(<<"s">>), Some("series"), <<>>, Some(<<"S">>), None, Some("b")),
      Item(Some("card"), Some(<<"k">>), Some("package"), <<>>, Some(<<"K">>), None, Some("c")),
      Item(Some("card"), Some(<<"o">>), Some("playlist"), <<>>, Some(<<"O">>), None, Some("d"))>>

MetaValues ==
    {Meta(shape, Some(o), Some(l), Some(c), k) :
        shape \in {"dict", "object"}, o \in 0..MaxOffset, l \in 1..MaxPageSize,
        c \in {0, MaxCount}, k \in {None, Some(<<"q">>)}}
    \cup {Meta(shape, None, None, Some(DEFAULT_PAGE_SIZE + 1), None) : shape \in {"dict", "object"}}

InitMap ==
    /\ op = "none"
    /\ \/ /\ args = [pagination_links |-> TRUE]
          /\ env \in [data : SeqsUpTo(FilterItems, MaxItems) \cup SeqsUpTo(TitledItems, MaxItems)
                             \cup {ExampleItems},
                      meta : {None}]
       \/ /\ args \in [pagination_links : BOOLEAN]
          /\ env \in [data : SeqsUpTo({ExampleItems[1], ExampleItems[2]}, 1),
                      meta : {None} \cup {Some(m) : m \in MetaValues}]
    /\ result = <<>>
    /\ raised = "none"
    /\ cache = EmptyMap
    /\ mapped = EmptyMap

CallParseSearchResults ==
    /\ op = "none"
    /\ op' = "_parse_search_results"
    /\ LET parsed == _parse_search_results(env, args.pagination_links, cache)
       IN  /\ result' = parsed.results
           /\ cache' = parsed.cache
    /\ UNCHANGED <<args, env, raised, mapped>>

NextMap == CallParseSearchResults

SpecMap == InitMap /\ [][NextMap]_vars

----------------------------------------------------------------------------
(* search and get_live_broadcasts, with the process-wide cache *)

ProgramA1 == Item(Some("card"), Some(<<"a", "1">>), Some("program"), <<>>, Some(<<"A">>), None, Some("a"))

ProgramA2 == Item(Some("card"), Some(<<"a", "2">>), Some("program"), <<"available">>, Some(<<>>), Some(DateText), Some("a"))

ClipB == Item(Some("card"), Some(<<"b">>), Some("clip"), <<>>, Some(<<"B">>), Some(ShortText), Some("b"))

SeriesA == Item(Some("card"), Some(<<"s">>), Some("series"), <<>>, Some(<<"S">>), None, Some("a"))

UpcomingB == Item(Some("card"), Some(<<"f">>), Some("program"), <<"upcoming">>, Some(<<"F">>), None, Some("b"))

PackageB == Item(Some("card"), Some(<<"k">>), Some("package"), <<>>, Some(<<"K">>), None, Some("b"))

ProgramNoId == Item(Some("card"), Some(<<"n">>), Some("program"), <<>>, Some(<<"N">>), None, None)

SearchItems == {ProgramA1, ClipB, UpcomingB, PackageB, ProgramNoId}

LiveItems == {ProgramA1, ProgramA2, SeriesA}

\* What the HTTP layer does with one GET: it fails before any response
\* ("timeout", "connect_error") or answers with a status and a JSON body.
HttpFailure(outcome) == [outcome |-> outcome, status |-> 0, json |-> [data |-> <<>>, meta |-> None]]

HttpResponse(status, data, meta) == [outcome |-> "response", status |-> status, json |-> [data |-> data, meta |-> meta]]

IsSuccess(r) == 200 <= r.status /\ r.status < 300

NoMeta == Meta("dict", None, None, None, None)

\* ProgramSearch.model_validate(resp.json()): meta is a Dict[str, Any], an
\* empty dict when the payload has none.
ProgramSearch(json) ==
    [data |-> json.data,
     meta |-> Some(IF json.meta = None THEN NoMeta ELSE Get(json.meta))]

\* ProgramAPI.search: the GET, raise_for_status, model_validate.  This is the
\* "master" side of the unresolved merge conflict in areena_api.py, the only
\* side that has a search method; how areena.py constructs the client and
\* names the arguments of the call is not modelled.
ProgramAPI_search(http) ==
    IF http.outcome # "response"
    THEN [raised |-> http.outcome, value |-> None]
    ELSE IF ~IsSuccess(http)
    THEN [raised |-> "HTTPStatusError", value |-> None]
    ELSE [raised |-> "none", value |-> Some(ProgramSearch(http.json))]

\* search: an exception of the client propagates, nothing is returned
search(keyword, offset, page_size, http, c) ==
    LET resp == ProgramAPI_search(http)
    IN  IF resp.raised # "none"
        THEN [raised |-> resp.raised, results |-> <<>>, cache |-> c]
        ELSE LET parsed == _parse_search_results(Get(resp.value), TRUE, c)
             IN  [raised |-> "none", results |-> parsed.results, cache |-> parsed.cache]

\* one source of get_live_broadcasts: the links it adds and the cache after
live_source(r, c) ==
    IF IsSuccess(r)
    THEN _parse_search_results(r.json, FALSE, c)
    ELSE [results |-> <<>>, cache |-> c]

get_live_broadcasts_stops_on_error(r1, r2, c) ==
    IF r1.outcome # "response"
    THEN [raised |-> r1.outcome, results |-> <<>>, cache |-> c]
    ELSE IF ~IsSuccess(r1)
    THEN [raised |-> "none", results |-> <<>>, cache |-> c]
    ELSE LET first == live_source(r1, c)
         IN  IF r2.outcome # "response"
             THEN [raised |-> r2.outcome, results |-> <<>>, cache |-> first.cache]
             ELSE LET second == live_source(r2, first.cache)
                  IN  [raised |-> "none",
                       results |-> first.results \o second.results,
                       cache |-> second.cache]

\* get_live_broadcasts: r1 is the answer for "only in Areena", r2 for sport;
\* requests.get raising ends the call, r2 is then not requested
get_live_broadcasts(r1, r2, c) ==
    IF r1.outcome # "response"
    THEN [raised |-> r1.outcome, results |-> <<>>, cache |-> c]
    ELSE LET first == live_source(r1, c)
         IN  IF r2.outcome # "response"
             THEN [raised |-> r2.outcome, results |-> <<>>, cache |-> first.cache]
             ELSE LET second == live_source(r2, first.cache)
                  IN  [raised |-> "none",
                       results |-> first.results \o second.results,
                       cache |-> second.cache]

\* The items a call hands to the mapping loop, in order.
DataOf(r) == IF r.outcome = "response" /\ IsSuccess(r) THEN r.json.data ELSE <<>>

\* History: id -> the program or clip item most recently mapped under it.
RECURSIVE MappedAfter(_, _, _)
MappedAfter(data, i, m) ==
    IF i > Len(data)
    THEN m
    ELSE LET item == data[i]
             keep == /\ item.type = Some("card")
                     /\ Truthy(item.pointer_uri)
                     /\ ~(item.transmissions # <<>> /\
                          \A k \in 1..Len(item.transmissions) : item.transmissions[k] = "upcoming")
                     /\ item.pointer_type \in {Some("program"), Some("clip")}
                     /\ item.id # None /\ item.id # Some("")
         IN  MappedAfter(data, i + 1, IF keep THEN Put(m, Get(item.id), item) ELSE m)

Failures == {HttpFailure("timeout"), HttpFailure("connect_error")}

SearchAnswers(offset, page_size) ==
    Failures
    \cup {HttpResponse(st, <<>>, None) : st \in {404, 500}}
    \cup {HttpResponse(200, data, meta) :
            data \in SeqsUpTo(SearchItems, MaxCallItems),
            meta \in {None,
                      Some(Meta("dict", Some(offset), Some(page_size), Some(0), None)),
                      Some(Meta("dict", Some(offset), Some(page_size), Some(MaxCount), Some(<<"q">>)))}}

LiveAnswers ==
    {HttpFailure("connect_error")}
    \cup {HttpResponse(st, <<>>, None) : st \in {302, 500}}
    \cup {HttpResponse(200, data, Some(Meta("dict", Some(0), Some(10), Some(20), None))) :
            data \in SeqsUpTo(LiveItems, MaxCallItems)}

Init ==
    /\ op = "none"
    /\ args = [keyword |-> <<>>, offset |-> 0, page_size |-> DEFAULT_PAGE_SIZE]
    /\ env = [http |-> HttpFailure("none")]
    /\ result = <<>>
    /\ raised = "none"
    /\ cache = EmptyMap
    /\ mapped = EmptyMap

Search ==
    \E offset \in 0..1, page_size \in {1} :
      \E http \in SearchAnswers(offset, page_size) :
        \E out \in {search(<<"q">>, offset, page_size, http, cache)} :
            /\ op' = "search"
            /\ args' = [keyword |-> <<"q">>, offset |-> offset, page_size |-> page_size]
            /\ env' = [http |-> http]
            /\ result' = out.results
            /\ raised' = out.raised
            /\ cache' = out.cache
            /\ mapped' = MappedAfter(DataOf(http), 1, mapped)

GetLiveBroadcasts ==
    \E r1 \in LiveAnswers, r2 \in LiveAnswers :
        \E out \in {get_live_broadcasts(r1, r2, cache)} :
            /\ op' = "get_live_broadcasts"
            /\ args' = [offset |-> 0, page_size |-> 10]
            /\ env' = [r1 |-> r1, r2 |-> r2]
            /\ result' = out.results
            /\ raised' = out.raised
            /\ cache' = out.cache
            /\ mapped' = MappedAfter(DataOf(r1) \o (IF r1.outcome = "response" THEN DataOf(r2) ELSE <<>>),
                                     1, mapped)

Next == Search \/ GetLiveBroadcasts

Spec == Init /\ [][Next]_vars

----------------------------------------------------------------------------
(* MediaAPI.get_playout *)

\* JSON values: [t |-> tag, text, elems, fields]: text is the text of a
\* string (or the numeral of a number), elems the elements of a list, fields
\* the <<key, value>> pairs of an object.
JNull == [t |-> "null", text |-> <<>>, elems |-> <<>>, fields |-> <<>>]
JStr(text) == [t |-> "str", text |-> text, elems |-> <<>>, fields |-> <<>>]
JNum(numeral) == [t |-> "num", text |-> numeral, elems |-> <<>>, fields |-> <<>>]
JTrue == [t |-> "bool", text |-> <<"t">>, elems |-> <<>>, fields |-> <<>>]
JList(elems) == [t |-> "list", text |-> <<>>, elems |-> elems, fields |-> <<>>]
JObj(fields) == [t |-> "obj", text |-> <<>>, elems |-> <<>>, fields |-> fields]

\* Python's truth value of a decoded JSON value
JTruthy(j) ==
    CASE j.t = "null" -> FALSE
      [] j.t = "str" -> j.text # <<>>
      [] j.t = "num" -> j.text # <<"0">>
      [] j.t = "bool" -> j.text = <<"t">>
      [] j.t = "list" -> j.elems # <<>>
      [] j.t = "obj" -> j.fields # <<>>

JHasKey(obj, key) == \E i \in 1..Len(obj.fields) : obj.fields[i][1] = key

\* dict.get(key, default)
JGet(obj, key, default) ==
    IF JHasKey(obj, key)
    THEN obj.fields[CHOOSE i \in 1..Len(obj.fields) : obj.fields[i][1] = key][2]
    ELSE default

UrlText == <<"u", "r", "l">>

\* "url" in info, for the types that support the test
JContainsUrl(j) ==
    CASE j.t = "obj" -> JHasKey(j, "url")
      [] j.t = "list" -> \E i \in 1..Len(j.elems) : j.elems[i] = JStr(UrlText)
      [] j.t = "str" -> \E i \in 1..Len(j.text) : i + 2 <= Len(j.text) /\ SubSeq(j.text, i, i + 2) = UrlText

\* Playout(url=..., drm=..., protocol=..., language=...): pydantic validation
Playout(url, drm, protocol, language) ==
    IF url.t = "str" /\ protocol.t = "str" /\ language.t \in {"str", "null"}
    THEN [raised |-> "none",
          value |-> Some([url |-> url.text, drm |-> drm, protocol |-> protocol.text,
                          language |-> IF language.t = "null" THEN None ELSE Some(language.text)])]
    ELSE [raised |-> "ValidationError", value |-> None]

\* lines 80-92: everything after the try block; body is [json |-> TRUE/FALSE, value]
playout_from_body(body, protocol) ==
    IF ~body.json
    THEN [raised |-> "JSONDecodeError", value |-> None]
    ELSE IF body.value.t # "obj"
    THEN [raised |-> "AttributeError", value |-> None]
    ELSE LET data == JGet(body.value, "data", JNull)
             info == IF data.t = "list"
                     THEN (IF data.elems # <<>> THEN data.elems[1] ELSE JNull)
                     ELSE data
         IN  IF ~JTruthy(info)
             THEN [raised |-> "none", value |-> None]
             ELSE IF info.t \in {"num", "bool"}
             THEN [raised |-> "TypeError", value |-> None]
             ELSE IF ~JContainsUrl(info)
             THEN [raised |-> "none", value |-> None]
             ELSE IF info.t # "obj"
             THEN [raised |-> "AttributeError", value |-> None]
             ELSE Playout(JGet(info, "url", JStr(<<>>)),
                          JTruthy(JGet(info, "drm", JNull)),
                          JGet(info, "protocol", JStr(protocol)),
                          JGet(info, "language", JNull))

\* get_playout: the try block swallows a failed request and an error status
get_playout(item_id, protocol, http) ==
    IF http.outcome # "response"
    THEN [raised |-> "none", value |-> None]
    ELSE IF ~IsSuccess(http)
    THEN [raised |-> "none", value |-> None]
    ELSE playout_from_body(http.body, protocol)

PlayoutResponse(status, body) == [outcome |-> "response", status |-> status, body |-> body]

PlayoutFailure(outcome) == [outcome |-> outcome, status |-> 0, body |-> [json |-> FALSE, value |-> JNull]]

PlayoutFields ==
    {<<"url", JStr(<<"h">>)>>, <<"url", JNull>>,
     <<"protocol", JStr(<<"H", "L", "S">>)>>, <<"protocol", JNull>>,
     <<"drm", JTrue>>}

\* objects with at most one value per key
PlayoutEntries ==
    {JObj(fs) : fs \in {f \in SeqsUpTo(PlayoutFields, 3) :
                            \A i, j \in 1..Len(f) : i < j => f[i][1] # f[j][1]}}

PlayoutData ==
    PlayoutEntries
    \cup {JList(<<e>>) : e \in PlayoutEntries}
    \cup {JList(<<>>), JNull, JNum(<<"5">>), JStr(<<"x">>), JStr(<<"c", "u", "r", "l">>),
          JList(<<JStr(UrlText)>>)}

PlayoutBodies ==
    {[json |-> FALSE, value |-> JNull],
     [json |-> TRUE, value |-> JList(<<>>)],
     [json |-> TRUE, value |-> JNull],
     [json |-> TRUE, value |-> JObj(<<>>)]}
    \cup {[json |-> TRUE, value |-> JObj(<< <<"data", d>> >>)] : d \in PlayoutData}

InitPlayout ==
    /\ op = "none"
    /\ args \in [item_id : {"1-1", "1-2"}, protocol : {<<"H", "L", "S">>, <<"D", "A", "S", "H">>}]
    /\ env \in [http : {PlayoutFailure("timeout"), PlayoutFailure("connect_error")}
                       \cup {PlayoutResponse(st, [json |-> FALSE, value |-> JNull]) : st \in {404, 500}}
                       \cup {PlayoutResponse(200, b) : b \in PlayoutBodies}]
    /\ result = None
    /\ raised = "none"
    /\ cache = EmptyMap
    /\ mapped = EmptyMap

CallGetPlayout ==
    /\ op = "none"
    /\ op' = "get_playout"
    /\ LET out == get_playout(args.item_id, args.protocol, env.http)
       IN  /\ result' = out.value
           /\ raised' = out.raised
    /\ UNCHANGED <<args, env, cache, mapped>>

NextPlayout == CallGetPlayout

SpecPlayout == InitPlayout /\ [][NextPlayout]_vars

----------------------------------------------------------------------------
(* Following the next-page links *)

\* The caller keeps requesting the page the trailing navigation link of the
\* previous result names.  The service holds env.count entries and echoes the
\* requested offset and limit in its metadata.
PageLength(offset, page_size, count) ==
    IF count - offset <= 0 THEN 0
    ELSE IF page_size < count - offset THEN page_size ELSE count - offset

SeasonPage(offset, page_size, count) ==
    [playlist |-> [i \in 1..PageLength(offset, page_size, count) |-> Episode(<<"E">>)],
     meta |-> [limit |-> Some(page_size), offset |-> Some(offset), count |-> Some(count)]]

SearchPage(offset, page_size, count) ==
    HttpResponse(200,
                 [i \in 1..PageLength(offset, page_size, count) |-> ClipB],
                 Some(Meta("dict", Some(offset), Some(page_size), Some(count), Some(<<"q">>))))

\* one call of the kind being paged, as [results, cache, data]
page_call(kind, offset, page_size, count, c) ==
    IF kind = "season_playlist"
    THEN [results |-> season_playlist(SeasonUrl(1), offset, page_size, SeasonPage(offset, page_size, count)),
          cache |-> c,
          data |-> <<>>]
    ELSE LET out == search(<<"q">>, offset, page_size, SearchPage(offset, page_size, count), c)
         IN  [results |-> out.results, cache |-> out.cache,
              data |-> DataOf(SearchPage(offset, page_size, count))]

InitPaging ==
    /\ op = "none"
    /\ args \in [kind : {"season_playlist", "search"},
                 offset : 0..MaxOffset,
                 page_size : 0..MaxPageSize]
    /\ env \in [count : 0..(2 * MaxCount), first_offset : 0..MaxOffset]
    /\ env.first_offset = args.offset
    /\ result = <<>>
    /\ raised = "none"
    /\ cache = EmptyMap
    /\ mapped = EmptyMap

FirstPage ==
    /\ op = "none"
    /\ op' = args.kind
    /\ \E out \in {page_call(args.kind, args.offset, args.page_size, env.count, cache)} :
           /\ result' = out.results
           /\ cache' = out.cache
           /\ mapped' = MappedAfter(out.data, 1, mapped)
    /\ UNCHANGED <<args, env, raised>>

FollowLink ==
    /\ op # "none"
    /\ result # <<>>
    /\ IsNav(result[Len(result)])
    /\ \E link \in {result[Len(result)]} :
         \E out \in {page_call(args.kind, link.offset, link.page_size, env.count, cache)} :
           /\ args' = [args EXCEPT !.offset = link.offset, !.page_size = link.page_size]
           /\ result' = out.results
           /\ cache' = out.cache
           /\ mapped' = MappedAfter(out.data, 1, mapped)
    /\ UNCHANGED <<op, env, raised>>

NextPaging == FirstPage \/ FollowLink

SpecPaging == InitPaging /\ [][NextPaging]_vars /\ WF_vars(NextPaging)

----------------------------------------------------------------------------
(* Claims about season_playlist and playlist *)

SeasonMeta == env.downloaded.meta

EpisodesMapped ==
    /\ Len(result) >= Len(env.downloaded.playlist)
    /\ \A i \in 1..Len(env.downloaded.playlist) :
          LET ep == env.downloaded.playlist[i]
          IN  /\ result[i].kind = "StreamLink"
              /\ result[i].homepage = ep.homepage
              /\ result[i].title = (IF ep.title = <<>> THEN PLACEHOLDER_TITLE ELSE ep.title)
              /\ result[i].is_folder = FALSE

TrailingSeasonLink(offset, limit, count) ==
    LET n == Len(env.downloaded.playlist)
    IN  IF offset + limit < count
        THEN /\ Len(result) = n + 1
             /\ result[n + 1] = SeriesNavigationLink(args.season_url, 0, offset + limit, limit, TRUE)
        ELSE Len(result) = n

\* C1 as stated: season_playlist returns one StreamLink per episode in page
\* order, then exactly one next-page SeriesNavigationLink (offset =
\* offset+limit, page_size = limit) iff offset+limit < count, where offset and
\* limit are the offset and page size of the call.
C1_AsStated ==
    op = "season_playlist" =>
        /\ EpisodesMapped
        /\ TrailingSeasonLink(args.offset, args.page_size, GetOr(SeasonMeta.count, 0))

\* C1 amended: season_playlist returns one StreamLink per episode in page
\* order, then exactly one next-page SeriesNavigationLink (offset =
\* offset+limit, page_size = limit) iff offset+limit < count, where offset,
\* limit and count are the ones of the response metadata (0,
\* DEFAULT_PAGE_SIZE and 0 when the metadata omits them).
C1_SeasonPlaylistPagination ==
    op = "season_playlist" =>
        /\ EpisodesMapped
        /\ TrailingSeasonLink(GetOr(SeasonMeta.offset, 0),
                              GetOr(SeasonMeta.limit, DEFAULT_PAGE_SIZE),
                              GetOr(SeasonMeta.count, 0))

C1_Witness ==
    /\ op = "season_playlist"
    /\ Len(env.downloaded.playlist) = 2
    /\ Len(result) = 3
    /\ result[3].kind = "SeriesNavigationLink"
    /\ result[3].offset # args.offset + args.page_size

\* C2: when the season listing resolves, playlist returns what
\* season_playlist returns for the only season's url with the caller's offset
\* and page size if there is exactly one season, and otherwise one
\* SeriesNavigationLink per season in listing order with offset 0, page size
\* DEFAULT_PAGE_SIZE and is_next_page false.
C2_PlaylistSeasons ==
    (op = "playlist" /\ env.seasons # None) =>
        LET season_urls == Get(env.seasons)
        IN  IF Len(season_urls) = 1
            THEN result = season_playlist(season_urls[1][2], args.offset, args.page_size, env.downloaded)
            ELSE /\ Len(result) = Len(season_urls)
                 /\ \A i \in 1..Len(season_urls) :
                       result[i] = [kind |-> "SeriesNavigationLink",
                                    season_playlist_url |-> season_urls[i][2],
                                    season_number |-> season_urls[i][1],
                                    offset |-> 0,
                                    page_size |-> DEFAULT_PAGE_SIZE,
                                    is_next_page |-> FALSE]

C2_Witness ==
    /\ op = "playlist"
    /\ env.seasons # None
    /\ Len(Get(env.seasons)) = 1
    /\ args.offset > 0
    /\ Len(result) = 2
    /\ result[1].kind = "StreamLink"
    /\ result[2].kind = "SeriesNavigationLink"
    /\ result[2].is_next_page

----------------------------------------------------------------------------
(* Claims about the mapping routine *)

IsStreamLink(l) == l.kind = "StreamLink"

\* An item with no transmissions is not "all upcoming", and an empty uri
\* counts as missing.
AllUpcoming(item) ==
    /\ Len(item.transmissions) > 0
    /\ \A i \in 1..Len(item.transmissions) : item.transmissions[i] = "upcoming"

Playable(item) == item.pointer_type \in {Some("program"), Some("clip")}

Emitted(item) ==
    /\ item.type = Some("card")
    /\ item.pointer_uri # None
    /\ item.pointer_uri # Some(<<>>)
    /\ ~AllUpcoming(item)
    /\ (Playable(item) \/ item.pointer_type = Some("series"))

\* C3: the mapping routine emits a StreamLink for an item iff the item is a
\* card with a pointer uri whose transmissions are not all upcoming and whose
\* pointer type is program, clip or series; the links are in input order and
\* is_folder is true exactly for the series items.
C3_MappingFilter ==
    op = "_parse_search_results" =>
        LET expected == SelectSeq(env.data, Emitted)
            links == SelectSeq(result, IsStreamLink)
        IN  /\ Len(links) = Len(expected)
            /\ \A k \in 1..Len(expected) :
                  /\ links[k].homepage = Get(expected[k].pointer_uri)
                  /\ links[k].is_folder = (expected[k].pointer_type = Some("series"))

C3_Witness ==
    /\ op = "_parse_search_results"
    /\ env.data = ExampleItems
    /\ Len(result) = 2
    /\ result[1].homepage = <<"p">> /\ ~result[1].is_folder
    /\ result[2].homepage = <<"s">> /\ result[2].is_folder

\* the link emitted for the i-th item of the response
LinkOf(i) == result[Cardinality({j \in 1..i : Emitted(env.data[j])})]

OriginalTitle(item) == IF item.title = None THEN <<>> ELSE Get(item.title)

TitleRule(item, link, shown_title) ==
    LET d == item.description
    IN  IF d = None \/ d = Some(<<>>)
        THEN TRUE
        ELSE IF parse_finnish_date(Get(d)) # None
        THEN link.title = shown_title /\ link.published = parse_finnish_date(Get(d))
        ELSE IF Len(Get(d)) < DESCRIPTION_PREFIX_LIMIT
        THEN /\ link.title = Get(d) \o <<":", " ">> \o OriginalTitle(item)
             /\ link.published = None
        ELSE link.title = shown_title

\* C8 as stated: for a program or clip item that passes the filter, a
\* description that parses as a date leaves the title the item's original
\* title, also when that is empty, and sets published; a shorter-than-100
\* unparseable description gives "<description>: <title>" and no published;
\* a longer unparseable one leaves the title unchanged.
C8_AsStated ==
    op = "_parse_search_results" =>
        \A i \in 1..Len(env.data) :
            (Emitted(env.data[i]) /\ Playable(env.data[i])) =>
                TitleRule(env.data[i], LinkOf(i), OriginalTitle(env.data[i]))

\* C8 amended: as stated, except that where the title is left unchanged an
\* empty original title is shown as the placeholder "???".
C8_TitleAndPublished ==
    op = "_parse_search_results" =>
        \A i \in 1..Len(env.data) :
            (Emitted(env.data[i]) /\ Playable(env.data[i])) =>
                TitleRule(env.data[i], LinkOf(i),
                          IF OriginalTitle(env.data[i]) = <<>>
                          THEN PLACEHOLDER_TITLE
                          ELSE OriginalTitle(env.data[i]))

C8_Witness ==
    /\ op = "_parse_search_results"
    /\ Len(env.data) = 2
    /\ env.data[1].description = Some(DateText) /\ env.data[1].title = Some(<<>>)
    /\ env.data[2].description = Some(ShortText) /\ env.data[2].title = Some(<<"T">>)
    /\ Len(result) = 2
    /\ result[1].title = PLACEHOLDER_TITLE
    /\ result[1].published = Some([day |-> 12, month |-> 3, year |-> 2021])
    /\ result[2].title = ShortText \o <<":", " ", "T">>
    /\ result[2].published = None

----------------------------------------------------------------------------
(* Claims about search, get_live_broadcasts and the cache *)

LiveData == DataOf(env.r1) \o DataOf(env.r2)

SearchMeta == Get(env.http.json.meta)

\* C6: for a search response whose metadata carries offset, limit and count,
\* search ends its result with exactly one SearchNavigationLink (offset =
\* offset+limit, page_size = limit, keyword of the metadata or '') iff
\* offset+limit < count.
C6_AsStated ==
    (/\ op = "search"
     /\ env.http.outcome = "response" /\ IsSuccess(env.http)
     /\ env.http.json.meta # None
     /\ SearchMeta.offset # None /\ SearchMeta.limit # None /\ SearchMeta.count # None) =>
        LET next_offset == Get(SearchMeta.offset) + Get(SearchMeta.limit)
        IN  IF next_offset < Get(SearchMeta.count)
            THEN /\ NavCount(result) = 1
                 /\ result[Len(result)] =
                       [kind |-> "SearchNavigationLink",
                        keyword |-> GetOr(SearchMeta.keyword, <<>>),
                        offset |-> next_offset,
                        page_size |-> Get(SearchMeta.limit)]
            ELSE NavCount(result) = 0

\* C7: when the request of the Program API client fails (no response, or a
\* non-2xx status), search raises nothing and returns no links.
C7_AsStated ==
    (op = "search" /\ (env.http.outcome # "response" \/ ~IsSuccess(env.http))) =>
        (raised = "none" /\ result = <<>>)

----------------------------------------------------------------------------
(* Claim about get_playout *)

\* the first playout entry of the response, when the body is a JSON object
FirstEntryHasUrl ==
    /\ env.http.outcome = "response" /\ IsSuccess(env.http)
    /\ env.http.body.json /\ env.http.body.value.t = "obj"
    /\ LET data == JGet(env.http.body.value, "data", JNull)
           info == IF data.t = "list" /\ data.elems # <<>> THEN data.elems[1] ELSE data
       IN  info.t = "obj" /\ JHasKey(info, "url")

\* C5: get_playout never raises; it returns null when the request fails, when
\* the body is not the expected JSON or carries no stream url, and returns a
\* Playout only when the first playout entry of the response has a url.
C5_AsStated ==
    op = "get_playout" =>
        /\ raised = "none"
        /\ (result # None => FirstEntryHasUrl)
        /\ (~FirstEntryHasUrl => result = None)

----------------------------------------------------------------------------
(* Claim about following the next-page links *)

PagingDone == op # "none" /\ NavCount(result) = 0

\* every navigation link names an offset beyond the one of its request
LinksAdvance ==
    op # "none" => \A i \in 1..Len(result) : IsNav(result[i]) => result[i].offset > args.offset

\* C9 as stated: for any initial offset and page size and any fixed count,
\* following the trailing navigation links of season_playlist (of search)
\* ends in a result without a navigation link, and every navigation link
\* carries an offset strictly greater than the offset of its request.
C9_AsStated == <>PagingDone /\ []LinksAdvance

\* C9 amended: the same for any initial offset and any page size of at least
\* 1 (the page size of a run never changes: every link carries the echoed
\* limit).
C9_PaginationTerminates ==
    /\ <>(args.page_size < 1 \/ PagingDone)
    /\ [](args.page_size >= 1 => LinksAdvance)

C9_Witness ==
    /\ op = "season_playlist"
    /\ args.page_size = 1
    /\ args.offset >= env.first_offset + 2
    /\ NavCount(result) = 0
    /\ Len(result) = 1

====
